---- MODULE Spec2Model ----
(***************************************************************************)
(* Activity Tracker (Activity_Tracker.py): the accounting engine           *)
(* (ActivityTracker), the settings store (SettingsManager) and the         *)
(* reminder engine (PopupManager), as state machines.                      *)
(*                                                                         *)
(* Time is counted in whole seconds; the arithmetic on times is exact      *)
(* (the rounding of Python's floats is outside this model).                *)
(***************************************************************************)
EXTENDS Integers, Sequences, FiniteSets, TLC

VARIABLES
    now,              \* the wall clock: what time.time() returns
    activities,       \* ActivityTracker.activities: app_name -> seconds
    current_activity, \* ActivityTracker.current_activity
    last_check_time,  \* ActivityTracker.last_check_time
    idle_time,        \* ActivityTracker.idle_time
    active_time,      \* ActivityTracker.active_time
    session_start,    \* ActivityTracker.session_start
    daily_logs,       \* ActivityTracker.daily_logs
    is_tracking,      \* ActivityTracker.is_tracking
    data_file,        \* the contents of the file named by ActivityTracker.data_file
    settings,         \* SettingsManager.settings
    settings_file,    \* the contents of the file named by SettingsManager.settings_file
    next_break_time,  \* PopupManager.next_break_time
    pc,               \* where the thread calling check_and_show_reminders is
    stats,            \* check_and_show_reminders: its local stats
    break_interval,   \* check_and_show_reminders: its local break_interval
    emitted,          \* the reminders shown by the current (or last) call, in order
    failures,         \* how many writes of a file have failed so far
    calls,            \* how many counted calls were made so far
    tracking_thread,  \* where the thread running tracking_loop is ("dead": none alive)
    alive,            \* how many threads running tracking_loop are alive
    gui,              \* where the main thread is in the command it runs
    local,            \* the values the threads hold between their steps
    paused_at,        \* the time of the pause command in effect, if any
    resumed_at,       \* the time of the resume command not yet followed by a sample
    op                \* the last call made: its inputs and the outcome of its IO

trackerVars == <<activities, current_activity, last_check_time, idle_time,
                 active_time, session_start, daily_logs, is_tracking>>

settingsVars == <<settings, settings_file>>

popupVars == <<next_break_time, pc, stats, break_interval, emitted>>

threadVars == <<tracking_thread, alive, gui, local, paused_at, resumed_at>>

vars == <<now, trackerVars, data_file, settingsVars, popupVars, threadVars,
          failures, calls, op>>

-----------------------------------------------------------------------------
(* Bounds of the model *)

\* The clock takes the values MinTime .. MaxTime.
MinTime == 9

MaxTime == 10

\* The accounting engine's specification stops appending switch events at this
\* length.
MaxLog == 3

\* The accounting engine's specification stops sampling once this many seconds
\* are accounted.
MaxTotal == 3

\* At most this many writes of a file fail in one behaviour.
MaxFailures == 1

Times == MinTime .. MaxTime

\* The window each application shows.
Windows == {<<"chrome.exe", "inbox">>, <<"code.exe", "main.py">>}

-----------------------------------------------------------------------------
(* Values *)

\* Python's None (current_activity before the first determinable sample).
None == "None"

\* What get_active_window returns: no window (falsy), or (app_name, window_title).
NoWindow == <<>>

Observations == {NoWindow} \cup Windows

\* A dict is the sequence of its (key, value) pairs in insertion order.
\* defaultdict(float) with no key.
EmptyDict == <<>>

\* dict.keys()
Keys(d) == {d[i][1] : i \in 1 .. Len(d)}

\* activities[app_name], defaultdict(float) giving 0.0 for a missing key.
Lookup(d, key) ==
    IF key \in Keys(d)
    THEN d[CHOOSE i \in 1 .. Len(d) : d[i][1] = key][2]
    ELSE 0

\* A slip in line 99: = for +=.
AddToOverwrites(d, key, delta) ==
    IF key \in Keys(d)
    THEN [i \in 1 .. Len(d) |-> IF d[i][1] = key THEN <<key, delta>> ELSE d[i]]
    ELSE Append(d, <<key, delta>>)

\* activities[app_name] += time_delta: a missing key is created, after the others.
AddTo(d, key, delta) ==
    IF key \in Keys(d)
    THEN [i \in 1 .. Len(d) |->
            IF d[i][1] = key THEN <<key, d[i][2] + delta>> ELSE d[i]]
    ELSE Append(d, <<key, 0 + delta>>)

RECURSIVE SumValues(_)
\* sum(activities.values())
SumValues(d) == IF d = <<>> THEN 0 ELSE d[1][2] + SumValues(Tail(d))

\* seq[-n:], the last n entries of a list (all of it when it is shorter).
LastN(seq, n) ==
    IF Len(seq) <= n THEN seq ELSE SubSeq(seq, Len(seq) - n + 1, Len(seq))

\* The number of log entries save_data keeps: daily_logs[-1000:].
LogCap == 1000

-----------------------------------------------------------------------------
(* The activity data file *)

\* The file does not exist.
NoFile == [kind |-> "absent", data |-> <<>>]

\* A file cut short by a write that failed part-way: it does not parse.
PartialFile == [kind |-> "partial", data |-> <<>>]

\* The dictionary save_data serialises.
SaveDict(acts, idle, active, start, logs) ==
    [activities    |-> acts,
     idle_time     |-> idle,
     active_time   |-> active,
     session_start |-> start,
     daily_logs    |-> LastN(logs, LogCap)]

\* json.dump of that dictionary into the file.
JsonFile(data) == [kind |-> "json", data |-> data]

\* How the IO of one save_data call can end: written in full, open() failed,
\* or the write failed after open() truncated the file.
SaveOutcomes == {"ok", "open_failed", "write_failed"}

\* The file after save_data, lines 138-149: the exception is caught and logged.
save_data(file, acts, idle, active, start, logs, outcome) ==
    CASE outcome = "ok"           -> JsonFile(SaveDict(acts, idle, active, start, logs))
      [] outcome = "open_failed"  -> file
      [] outcome = "write_failed" -> PartialFile

\* data.get(key, default)
Get(data, key, default) == IF key \in DOMAIN data THEN data[key] ELSE default

\* The tracker's fields as __init__ sets them at time t, before load_data.
InitFields(t) ==
    [activities       |-> EmptyDict,
     current_activity |-> None,
     last_check_time  |-> t,
     idle_time        |-> 0,
     active_time      |-> 0,
     session_start    |-> t,
     daily_logs       |-> <<>>,
     is_tracking      |-> TRUE]

\* load_data, lines 151-164, on the fields self: a file that is missing or does
\* not parse leaves them as they are.
load_data(self, file) ==
    IF file.kind = "json"
    THEN [self EXCEPT
            !.activities    = Get(file.data, "activities", EmptyDict),
            !.idle_time     = Get(file.data, "idle_time", 0),
            !.active_time   = Get(file.data, "active_time", 0),
            !.daily_logs    = Get(file.data, "daily_logs", <<>>),
            !.session_start = Get(file.data, "session_start", self.session_start)]
    ELSE self

\* ActivityTracker(data_file) constructed at time t.
NewTracker(t, file) == load_data(InitFields(t), file)

-----------------------------------------------------------------------------
(* Operations *)

\* Lines 90-93 without the clamp of lines 92-93.
TimeDeltaUnclamped(t, last) == t - last

\* The clamped time since the last sample, lines 90-93.
TimeDelta(t, last) == IF t - last < 0 THEN 0 ELSE t - last

\* The switch event of lines 104-109; the ISO timestamp is that of the clock.
SwitchEvent(t, app, title) ==
    [timestamp |-> t, app_name |-> app, window_title |-> title,
     action |-> "switched_to"]

\* Line 103 logging every sample of a window.
SwitchedAlways(current, app) == TRUE

\* The test of line 103: the application differs from the current one.
Switched(current, app) == current # app

\* The throttle of line 117.
SaveDue(t) == t % 10 = 0

\* track_activity with line 100 outside the if: idle time counts as active too.
track_activity_idle_is_active(window_info, outcome) ==
    LET time_delta == TimeDelta(now, last_check_time)
        found      == window_info # NoWindow
        app_name   == window_info[1]
        title      == window_info[2]
        acts       == IF found THEN AddTo(activities, app_name, time_delta)
                      ELSE activities
        active     == active_time + time_delta
        idle       == IF found THEN idle_time ELSE idle_time + time_delta
        switched   == found /\ Switched(current_activity, app_name)
        logs       == IF switched
                      THEN Append(daily_logs, SwitchEvent(now, app_name, title))
                      ELSE daily_logs
        saved      == SaveDue(now)
    IN  /\ saved \/ outcome = "ok"
        /\ activities' = acts
        /\ active_time' = active
        /\ idle_time' = idle
        /\ daily_logs' = logs
        /\ current_activity' = IF switched THEN app_name ELSE current_activity
        /\ last_check_time' = now
        /\ data_file' = IF saved
                        THEN save_data(data_file, acts, idle, active,
                                       session_start, logs, outcome)
                        ELSE data_file
        /\ op' = [name |-> "track_activity", window_info |-> window_info,
                  delta |-> now - last_check_time,
                  save |-> IF saved THEN outcome ELSE "none", again |-> FALSE]
        /\ UNCHANGED <<now, session_start, is_tracking>>

\* ActivityTracker.track_activity with get_active_window returning window_info;
\* outcome is how the save of line 118 ends when it is due.
track_activity(window_info, outcome) ==
    LET time_delta == TimeDelta(now, last_check_time)
        found      == window_info # NoWindow
        app_name   == window_info[1]
        title      == window_info[2]
        acts       == IF found THEN AddTo(activities, app_name, time_delta)
                      ELSE activities
        active     == IF found THEN active_time + time_delta ELSE active_time
        idle       == IF found THEN idle_time ELSE idle_time + time_delta
        switched   == found /\ Switched(current_activity, app_name)
        logs       == IF switched
                      THEN Append(daily_logs, SwitchEvent(now, app_name, title))
                      ELSE daily_logs
        saved      == SaveDue(now)
    IN  /\ saved \/ outcome = "ok"
        /\ activities' = acts
        /\ active_time' = active
        /\ idle_time' = idle
        /\ daily_logs' = logs
        /\ current_activity' = IF switched THEN app_name ELSE current_activity
        /\ last_check_time' = now
        /\ data_file' = IF saved
                        THEN save_data(data_file, acts, idle, active,
                                       session_start, logs, outcome)
                        ELSE data_file
        /\ op' = [name |-> "track_activity", window_info |-> window_info,
                  delta |-> now - last_check_time,
                  save |-> IF saved THEN outcome ELSE "none", again |-> FALSE]
        /\ UNCHANGED <<now, session_start, is_tracking>>

\* The tracker holds nothing: the state clear_data leaves, whatever session_start is.
WasCleared ==
    /\ activities = EmptyDict
    /\ idle_time = 0
    /\ active_time = 0
    /\ daily_logs = <<>>

\* clear_data without line 172: the log is kept (and saved).
clear_data_keeps_logs(outcome) ==
    /\ activities' = EmptyDict
    /\ idle_time' = 0
    /\ active_time' = 0
    /\ session_start' = now
    /\ data_file' = save_data(data_file, EmptyDict, 0, 0, now, daily_logs, outcome)
    /\ op' = [name |-> "clear_data", window_info |-> NoWindow, delta |-> 0,
              save |-> outcome, again |-> WasCleared]
    /\ UNCHANGED <<now, current_activity, last_check_time, is_tracking, daily_logs>>

\* clear_data that also resets current_activity and last_check_time.
clear_data_resets_sampling(outcome) ==
    /\ activities' = EmptyDict
    /\ idle_time' = 0
    /\ active_time' = 0
    /\ session_start' = now
    /\ daily_logs' = <<>>
    /\ current_activity' = None
    /\ last_check_time' = now
    /\ data_file' = save_data(data_file, EmptyDict, 0, 0, now, <<>>, outcome)
    /\ op' = [name |-> "clear_data", window_info |-> NoWindow, delta |-> 0,
              save |-> outcome, again |-> WasCleared]
    /\ UNCHANGED <<now, is_tracking>>

\* ActivityTracker.clear_data, lines 166-173.
clear_data(outcome) ==
    /\ activities' = EmptyDict
    /\ idle_time' = 0
    /\ active_time' = 0
    /\ session_start' = now
    /\ daily_logs' = <<>>
    /\ data_file' = save_data(data_file, EmptyDict, 0, 0, now, <<>>, outcome)
    /\ op' = [name |-> "clear_data", window_info |-> NoWindow, delta |-> 0,
              save |-> outcome, again |-> WasCleared]
    /\ UNCHANGED <<now, current_activity, last_check_time, is_tracking>>

\* The clock moves: forward, or backward when it is adjusted.
ClockMoves(t) ==
    /\ t # now
    /\ now' = t
    /\ op' = [name |-> "clock", window_info |-> NoWindow, delta |-> 0, save |-> "none",
              again |-> FALSE]
    /\ UNCHANGED trackerVars

-----------------------------------------------------------------------------
(* The settings store *)

\* SettingsManager.default_settings, lines 181-191 (entertainment_threshold in hours).
default_settings ==
    [reminders_enabled       |-> TRUE,
     break_reminder_enabled  |-> TRUE,
     break_interval          |-> 30,
     app_usage_warnings      |-> TRUE,
     entertainment_threshold |-> 2,
     idle_warning_enabled    |-> TRUE,
     idle_threshold          |-> 15,
     tracking_interval       |-> 5,
     popup_interval          |-> 30]

\* dict.update: the entries of over replace or extend those of base.
Update(base, over) ==
    [k \in (DOMAIN base) \cup (DOMAIN over) |->
        IF k \in DOMAIN over THEN over[k] ELSE base[k]]

\* The settings file does not exist.
NoSettingsFile == [kind |-> "absent", data |-> <<>>]

\* A settings file that cannot be parsed (cut short, or not JSON).
PartialSettingsFile == [kind |-> "partial", data |-> <<>>]

\* load_settings without the defaults under the loaded mapping.
load_settings_unmerged(file) ==
    IF file.kind = "json" THEN file.data ELSE default_settings

\* SettingsManager.load_settings, lines 194-206.
load_settings(file) ==
    IF file.kind = "json"
    THEN Update(default_settings, file.data)
    ELSE default_settings

\* The file after SettingsManager.save_settings, lines 208-214.
save_settings(file, s, outcome) ==
    CASE outcome = "ok"           -> [kind |-> "json", data |-> s]
      [] outcome = "open_failed"  -> file
      [] outcome = "write_failed" -> PartialSettingsFile

\* SettingsManager.get_setting, lines 216-218.
get_setting(s, key) ==
    IF key \in DOMAIN s THEN s[key]
    ELSE IF key \in DOMAIN default_settings THEN default_settings[key]
    ELSE None

\* set_setting saving before it stores the value.
set_setting_saves_first(key, value, outcome) ==
    /\ settings' = Update(settings, [k \in {key} |-> value])
    /\ settings_file' = save_settings(settings_file, settings, outcome)
    /\ op' = [name |-> "set_setting", key |-> key, value |-> value, save |-> outcome]

\* SettingsManager.set_setting, lines 220-223.
set_setting(key, value, outcome) ==
    /\ settings' = Update(settings, [k \in {key} |-> value])
    /\ settings_file' = save_settings(settings_file, settings', outcome)
    /\ op' = [name |-> "set_setting", key |-> key, value |-> value, save |-> outcome]

\* SettingsManager.__init__, lines 179-192, on the file as it is.
NewSettingsManager ==
    /\ settings' = load_settings(settings_file)
    /\ settings_file' = settings_file
    /\ op' = [name |-> "SettingsManager", key |-> None, value |-> None,
              save |-> "none"]

-----------------------------------------------------------------------------
(* Statistics and the reminder engine *)

RECURSIVE SortedByDurationUnstable(_)
\* The sort putting an item before the earlier items of the same duration.
SortedByDurationUnstable(d) ==
    IF d = <<>> THEN <<>>
    ELSE LET x      == d[Len(d)]
             before == SortedByDurationUnstable(SubSeq(d, 1, Len(d) - 1))
             keep   == {i \in 1 .. Len(before) : before[i][2] > x[2]}
             n      == Cardinality(keep)
         IN  SubSeq(before, 1, n) \o <<x>> \o SubSeq(before, n + 1, Len(before))

RECURSIVE SortedByDuration(_)
\* sorted(activities.items(), key=lambda x: x[1], reverse=True), line 133: a
\* stable sort, so items of equal duration keep their insertion order.
SortedByDuration(d) ==
    IF d = <<>> THEN <<>>
    ELSE LET x      == d[Len(d)]
             before == SortedByDuration(SubSeq(d, 1, Len(d) - 1))
             keep   == {i \in 1 .. Len(before) : before[i][2] >= x[2]}
             n      == Cardinality(keep)
         IN  SubSeq(before, 1, n) \o <<x>> \o SubSeq(before, n + 1, Len(before))

\* ActivityTracker.get_top_apps, lines 131-134.
get_top_apps(d, n) ==
    LET sorted_apps == SortedByDuration(d)
    IN  SubSeq(sorted_apps, 1, IF Len(sorted_apps) < n THEN Len(sorted_apps) ELSE n)

\* ActivityTracker.get_statistics at time t, lines 120-129.
get_statistics(t) ==
    [total_time  |-> IF t - session_start < 1 THEN 1 ELSE t - session_start,
     active_time |-> active_time,
     idle_time   |-> idle_time,
     activities  |-> activities,
     top_apps    |-> get_top_apps(activities, 5)]

\* stats before any call of check_and_show_reminders.
NoStats ==
    [total_time |-> 1, active_time |-> 0, idle_time |-> 0, activities |-> <<>>,
     top_apps |-> <<>>]

\* PopupManager.entertainment_keywords, line 235, each as its characters.
entertainment_keywords ==
    {<<"c", "h", "r", "o", "m", "e">>,
     <<"f", "i", "r", "e", "f", "o", "x">>,
     <<"d", "i", "s", "c", "o", "r", "d">>,
     <<"s", "t", "e", "a", "m">>,
     <<"s", "p", "o", "t", "i", "f", "y">>,
     <<"y", "o", "u", "t", "u", "b", "e">>,
     <<"n", "e", "t", "f", "l", "i", "x">>,
     <<"e", "d", "g", "e">>}

\* The names process.name() gives for the applications of the model, each as
\* its characters.
AppNames == {"chrome.exe", "code.exe", "explorer.exe", "Discord.exe"}

Letters(app) ==
    CASE app = "chrome.exe"   -> <<"c", "h", "r", "o", "m", "e", ".", "e", "x", "e">>
      [] app = "code.exe"     -> <<"c", "o", "d", "e", ".", "e", "x", "e">>
      [] app = "explorer.exe" -> <<"e", "x", "p", "l", "o", "r", "e", "r", ".", "e", "x", "e">>
      [] app = "Discord.exe"  -> <<"D", "i", "s", "c", "o", "r", "d", ".", "e", "x", "e">>

\* str.lower() on the characters the names of the model hold.
lower(letters) ==
    [i \in DOMAIN letters |-> CASE letters[i] = "D" -> "d" [] OTHER -> letters[i]]

\* keyword in app_l
Contains(app_l, keyword) ==
    \E i \in 0 .. Len(app_l) - Len(keyword) :
        SubSeq(app_l, i + 1, i + Len(keyword)) = keyword

\* Lines 292-293: the applications whose lower-case name contains one of the
\* keywords.
EntertainmentApps ==
    {app \in AppNames :
        \E keyword \in entertainment_keywords : Contains(lower(Letters(app)), keyword)}

\* snooze_break(300) of line 281.
SnoozeSeconds == 300

\* The reminders, as the title of the popup and the application it names.
BreakReminder == <<"Break Reminder", None>>

UsageAlert(app) == <<"Usage Alert", app>>

IdleAlert == <<"Idle Alert", None>>

\* Line 270 with > for >= on the active time.
BreakDueStrictly(st, interval, t, next) ==
    st.active_time > interval * 60 /\ t >= next

\* Line 270: work_minutes >= break_interval and time.time() >= next_break_time,
\* where work_minutes = active_time / 60.0 (the division multiplied out).
BreakDue(st, interval, t, next) ==
    st.active_time >= interval * 60 /\ t >= next

\* snooze_break adding the seconds to the old next_break_time, not to the clock.
snooze_break_from_old(t, seconds) == next_break_time + seconds

\* PopupManager.snooze_break at time t, lines 254-256: the new next_break_time.
snooze_break(t, seconds) == t + seconds

\* Line 284 at time t: the new next_break_time when the snooze is declined.
DeclinedUntil(t, interval) == t + interval * 60

\* Line 294 with >= for >.
OverThresholdOrEqual(duration_seconds, threshold_hours) ==
    duration_seconds >= threshold_hours * 3600

\* Line 294: duration_hours > threshold_hours, where duration_hours =
\* duration_seconds / 3600.0 (the division multiplied out).
OverThreshold(duration_seconds, threshold_hours) ==
    duration_seconds > threshold_hours * 3600

RECURSIVE UsageAlerts(_, _)
\* Lines 291-300: one usage alert per application over the threshold (in hours,
\* the division multiplied out), in the order of stats['activities'].
UsageAlerts(d, threshold_hours) ==
    IF d = <<>> THEN <<>>
    ELSE (IF d[1][1] \in EntertainmentApps /\ OverThreshold(d[1][2], threshold_hours)
          THEN <<UsageAlert(d[1][1])>> ELSE <<>>)
         \o UsageAlerts(Tail(d), threshold_hours)

\* Line 306 with >= for >.
IdleTooLongOrEqual(idle_seconds, idle_threshold) ==
    idle_seconds >= idle_threshold * 60

\* Line 306: idle_minutes > idle_threshold, where idle_minutes =
\* idle_time / 60.0 (the division multiplied out).
IdleTooLong(idle_seconds, idle_threshold) ==
    idle_seconds > idle_threshold * 60

\* Lines 288-311: what the usage rule and the idle rule show for the stats st.
UsageAndIdle(st) ==
    (IF get_setting(settings, "app_usage_warnings") = TRUE
     THEN UsageAlerts(st.activities, get_setting(settings, "entertainment_threshold"))
     ELSE <<>>)
    \o
    (IF /\ get_setting(settings, "idle_warning_enabled") = TRUE
        /\ IdleTooLong(st.idle_time, get_setting(settings, "idle_threshold"))
     THEN <<IdleAlert>> ELSE <<>>)

\* check_and_show_reminders whose line 260 tests break_reminder_enabled.
check_and_show_reminders_wrong_option ==
    /\ pc = "idle"
    /\ op' = [name |-> "check_and_show_reminders", answer |-> None]
    /\ UNCHANGED next_break_time
    /\ IF get_setting(settings, "break_reminder_enabled") # TRUE
       THEN /\ emitted' = <<>>
            /\ UNCHANGED <<pc, stats, break_interval>>
       ELSE LET st == get_statistics(now)
                interval == get_setting(settings, "break_interval")
            IN  /\ stats' = st
                /\ IF get_setting(settings, "break_reminder_enabled") = TRUE
                   THEN /\ break_interval' = interval
                        /\ IF BreakDue(st, interval, now, next_break_time)
                           THEN /\ emitted' = <<BreakReminder>>
                                /\ pc' = "ask"
                           ELSE /\ emitted' = UsageAndIdle(st)
                                /\ pc' = "idle"
                   ELSE /\ emitted' = UsageAndIdle(st)
                        /\ UNCHANGED <<pc, break_interval>>

\* PopupManager.check_and_show_reminders, lines 258-311, up to its return or,
\* when the break reminder is due, up to the dialogs of lines 278-280, which
\* block the calling thread until they are answered.
check_and_show_reminders ==
    /\ pc = "idle"
    /\ op' = [name |-> "check_and_show_reminders", answer |-> None]
    /\ UNCHANGED next_break_time
    /\ IF get_setting(settings, "reminders_enabled") # TRUE
       THEN /\ emitted' = <<>>
            /\ UNCHANGED <<pc, stats, break_interval>>
       ELSE LET st == get_statistics(now)
                interval == get_setting(settings, "break_interval")
            IN  /\ stats' = st
                /\ IF get_setting(settings, "break_reminder_enabled") = TRUE
                   THEN /\ break_interval' = interval
                        /\ IF BreakDue(st, interval, now, next_break_time)
                           THEN /\ emitted' = <<BreakReminder>>
                                /\ pc' = "ask"
                           ELSE /\ emitted' = UsageAndIdle(st)
                                /\ pc' = "idle"
                   ELSE /\ emitted' = UsageAndIdle(st)
                        /\ UNCHANGED <<pc, break_interval>>

\* The rest of the call once the dialogs are answered, lines 280-311: askyesno
\* returned True ("yes"), False ("no"), or the dialogs raised ("raise", caught
\* and logged in lines 285-286).
answer_snooze(answer) ==
    /\ pc = "ask"
    /\ pc' = "idle"
    /\ next_break_time' =
          CASE answer = "yes"   -> snooze_break(now, SnoozeSeconds)
            [] answer = "no"    -> DeclinedUntil(now, break_interval)
            [] answer = "raise" -> next_break_time
    /\ emitted' = emitted \o UsageAndIdle(stats)
    /\ op' = [name |-> "answer_snooze", answer |-> answer]
    /\ UNCHANGED <<stats, break_interval>>

\* PopupManager.__init__, lines 228-235.
PopupInit ==
    /\ next_break_time = 0
    /\ pc = "idle"
    /\ stats = NoStats
    /\ break_interval = 0
    /\ emitted = <<>>

-----------------------------------------------------------------------------
(* Initial states *)

\* The locals of a thread that is in no call of track_activity.
IdleThread ==
    [pc |-> "idle", current_time |-> 0, time_delta |-> 0, window_info |-> NoWindow,
     tmp |-> 0]

\* The locals of a thread that is in no call of get_statistics.
IdleReader ==
    [pc |-> "idle", total_time |-> 0, active_time |-> 0, idle_time |-> 0,
     activities |-> EmptyDict]

\* No thread holds anything between steps.
NoLocals == [sampler |-> IdleThread, reader |-> IdleReader]

\* MainApplication.__init__, lines 317-335: start_tracking() has started the
\* thread running tracking_loop, and the main thread runs no command.
ThreadInit ==
    /\ tracking_thread = "test"
    /\ alive = 1
    /\ gui = "idle"
    /\ local = NoLocals
    /\ paused_at = {}
    /\ resumed_at = {}

\* ActivityTracker() constructed at time t where no data file exists.
TrackerInit(t) ==
    /\ now = t
    /\ data_file = NoFile
    /\ LET self == NewTracker(t, NoFile)
       IN  /\ activities = self.activities
           /\ current_activity = self.current_activity
           /\ last_check_time = self.last_check_time
           /\ idle_time = self.idle_time
           /\ active_time = self.active_time
           /\ session_start = self.session_start
           /\ daily_logs = self.daily_logs
           /\ is_tracking = self.is_tracking

\* SettingsManager() constructed on the settings file given.
SettingsInit(file) ==
    /\ settings_file = file
    /\ settings = load_settings(file)

-----------------------------------------------------------------------------
(* The accounting engine: a fresh install, then any calls one at a time. *)

Init ==
    /\ TrackerInit(MinTime)
    /\ SettingsInit(NoSettingsFile)
    /\ PopupInit
    /\ ThreadInit
    /\ failures = 0
    /\ calls = 0
    /\ op = [name |-> "__init__", window_info |-> NoWindow, delta |-> 0, save |-> "none",
              again |-> FALSE]

\* A sample of any observation whose write, when one is due, succeeds.
Sample ==
    \E w \in Observations :
        /\ (w # NoWindow /\ current_activity # w[1]) => Len(daily_logs) < MaxLog
        /\ active_time + idle_time + TimeDelta(now, last_check_time) <= MaxTotal
        /\ track_activity(w, "ok")
        /\ UNCHANGED <<threadVars, settingsVars, popupVars, failures, calls>>

\* clear_data whose write succeeds.
Clear ==
    /\ clear_data("ok")
    /\ UNCHANGED <<threadVars, settingsVars, popupVars, failures, calls>>

Tick ==
    \E t \in Times :
        /\ ClockMoves(t)
        /\ UNCHANGED <<threadVars, data_file, settingsVars, popupVars, failures, calls>>

Next == Sample \/ Clear \/ Tick

Spec == Init /\ [][Next]_vars

-----------------------------------------------------------------------------
(* The accounting engine when writes of the data file may fail: open() raises *)
(* and the file stays as it was, or json.dump raises part-way.                *)

\* This specification stops appending switch events at this length.
FaultLog == 1

\* This specification stops sampling once this many seconds are accounted.
FaultTotal == 1

\* The IO of a call that saves ends with outcome o; failures are counted.
Fails(saves, o) ==
    /\ (saves /\ o # "ok") => failures < MaxFailures
    /\ failures' = IF saves /\ o # "ok" THEN failures + 1 ELSE failures

SampleFaulty ==
    \E w \in Observations, o \in SaveOutcomes :
        /\ (w # NoWindow /\ current_activity # w[1]) => Len(daily_logs) < FaultLog
        /\ active_time + idle_time + TimeDelta(now, last_check_time) <= FaultTotal
        /\ track_activity(w, o)
        /\ Fails(SaveDue(now), o)
        /\ UNCHANGED <<threadVars, settingsVars, popupVars, calls>>

ClearFaulty ==
    \E o \in SaveOutcomes :
        /\ clear_data(o)
        /\ Fails(TRUE, o)
        /\ UNCHANGED <<threadVars, settingsVars, popupVars, calls>>

NextFaults == SampleFaulty \/ ClearFaulty \/ Tick

SpecFaults == Init /\ [][NextFaults]_vars

-----------------------------------------------------------------------------
(* The event log on its own: samples of windows within one second, so that   *)
(* nothing but the log grows, up to one entry past LogCap.                   *)

SampleWindow ==
    \E w \in Windows :
        /\ Len(daily_logs) <= LogCap
        /\ track_activity(w, "ok")
        /\ Fails(SaveDue(now), "ok")
        /\ UNCHANGED <<threadVars, settingsVars, popupVars, calls>>

NextLog == SampleWindow

SpecLog == Init /\ [][NextLog]_vars

\* C3: in every reachable state the in-memory event log holds at most
\* LogCap = 1000 entries.
C3_LogNeverExceedsCap == Len(daily_logs) <= LogCap

-----------------------------------------------------------------------------
(* The settings store on its own: constructed on any of a few settings files, *)
(* then set_setting calls and new SettingsManagers on the file left behind.   *)

\* At most this many set_setting calls in one behaviour.
MaxSets == 2

\* Other values than the defaults, and a key that is no option.
other_settings ==
    [reminders_enabled       |-> FALSE,
     break_reminder_enabled  |-> FALSE,
     break_interval          |-> 1,
     app_usage_warnings      |-> FALSE,
     entertainment_threshold |-> 0,
     idle_warning_enabled    |-> FALSE,
     idle_threshold          |-> 1,
     tracking_interval       |-> 1,
     popup_interval          |-> 1,
     test_key                |-> "test_value"]

\* The values set_setting is called with for a key.
SettingValues(key) ==
    IF key \in DOMAIN default_settings
    THEN {default_settings[key], other_settings[key]}
    ELSE {"test_value", "other_value"}

\* The keys a settings file found at start holds: none, all, or all but one.
FileKeySets ==
    {{}, DOMAIN other_settings}
        \cup {(DOMAIN default_settings) \ {k} : k \in DOMAIN default_settings}

SettingsFiles ==
    {NoSettingsFile, PartialSettingsFile}
        \cup {[kind |-> "json", data |-> [k \in S |-> other_settings[k]]] :
                S \in FileKeySets}

InitSettings ==
    /\ TrackerInit(MinTime)
    /\ \E file \in SettingsFiles : SettingsInit(file)
    /\ PopupInit
    /\ ThreadInit
    /\ failures = 0
    /\ calls = 0
    /\ op = [name |-> "SettingsManager", key |-> None, value |-> None,
             save |-> "none"]

SetSetting ==
    \E key \in DOMAIN other_settings, o \in SaveOutcomes :
        \E value \in SettingValues(key) :
            /\ calls < MaxSets
            /\ calls' = calls + 1
            /\ set_setting(key, value, o)
            /\ Fails(TRUE, o)
            /\ UNCHANGED <<threadVars, now, trackerVars, data_file, popupVars>>

Reopen ==
    /\ NewSettingsManager
    /\ UNCHANGED <<threadVars, now, trackerVars, data_file, popupVars, failures, calls>>

NextSettings == SetSetting \/ Reopen

SpecSettings == InitSettings /\ [][NextSettings]_vars

\* C9: settings constructed from a file hold, for each of the nine default keys,
\* the file's value when the file has the key and the default when it lacks it
\* (every key the default when the file is missing or does not parse); the nine
\* keys are present in every state.
C9_MergeOverDefaults ==
    /\ \A k \in DOMAIN default_settings : k \in DOMAIN settings
    /\ (op.name = "SettingsManager") =>
          \A k \in DOMAIN default_settings :
              settings[k] = IF settings_file.kind = "json" /\ k \in DOMAIN settings_file.data
                            THEN settings_file.data[k]
                            ELSE default_settings[k]

\* C9 witness: after a set_setting whose write left the file as it was, a new
\* SettingsManager is constructed on that file, which lacks idle_threshold and
\* holds other values than the defaults: idle_threshold is 15, the other keys
\* are the file's.
C9_Witness ==
    /\ op.name = "SettingsManager"
    /\ calls > 0
    /\ settings_file.kind = "json"
    /\ "idle_threshold" \notin DOMAIN settings_file.data
    /\ settings["idle_threshold"] = 15
    /\ "break_interval" \in DOMAIN settings_file.data
    /\ settings["break_interval"] = settings_file.data["break_interval"]
    /\ settings["break_interval"] # default_settings["break_interval"]

\* C10 as claimed: after set_setting(key, value), get_setting(key) is value, the
\* other keys keep their values, and the file holds the new value: a
\* SettingsManager constructed on it returns value for key.
C10_SetPersists ==
    [][(op'.name = "set_setting") =>
        /\ get_setting(settings', op'.key) = op'.value
        /\ DOMAIN settings' = (DOMAIN settings) \cup {op'.key}
        /\ \A k \in (DOMAIN settings) \ {op'.key} : settings'[k] = settings[k]
        /\ get_setting(load_settings(settings_file'), op'.key) = op'.value]_vars

\* C10 amended: after set_setting(key, value), get_setting(key) is value and the
\* other keys keep their values; when the write of the file succeeded the file
\* holds the new settings and a SettingsManager constructed on it returns value
\* for key; when open() failed the file is as it was, and when the write failed
\* part-way the file does not parse.
C10_SetPersistsIfWritten ==
    [][(op'.name = "set_setting") =>
        /\ get_setting(settings', op'.key) = op'.value
        /\ DOMAIN settings' = (DOMAIN settings) \cup {op'.key}
        /\ \A k \in (DOMAIN settings) \ {op'.key} : settings'[k] = settings[k]
        /\ (op'.save = "ok") =>
              /\ settings_file'.kind = "json"
              /\ settings_file'.data = settings'
              /\ get_setting(load_settings(settings_file'), op'.key) = op'.value
        /\ (op'.save = "open_failed") => settings_file' = settings_file
        /\ (op'.save = "write_failed") => settings_file'.kind = "partial"]_vars

\* C10 witness: set_setting on the key that is no option, on settings loaded from
\* a file without it, and the file now holds the value.
C10_Witness ==
    /\ op.name = "set_setting"
    /\ op.key = "test_key"
    /\ op.save = "ok"
    /\ settings_file.kind = "json"
    /\ "test_key" \in DOMAIN settings_file.data
    /\ settings_file.data["test_key"] = op.value
    /\ get_setting(settings, "test_key") = op.value

-----------------------------------------------------------------------------
(* The reminder engine: settings read from one of a few files, a clock that   *)
(* only moves forward, samples of one window or of none, and calls of         *)
(* check_and_show_reminders whose dialogs are answered at any later time.     *)

\* The times at which something happens; the tracker is constructed at the first.
ReminderTimes == {1000, 1060, 1061, 1121, 1361}

\* Settings files with short thresholds, so that the rules apply within those times.
ReminderFiles ==
    {[kind |-> "json",
      data |-> [reminders_enabled       |-> on,
                break_reminder_enabled  |-> break,
                break_interval          |-> minutes,
                entertainment_threshold |-> 0,
                idle_threshold          |-> 1]] :
        on \in BOOLEAN, break \in BOOLEAN, minutes \in {1, 2}}

InitReminder ==
    /\ TrackerInit(1000)
    /\ \E file \in ReminderFiles : SettingsInit(file)
    /\ PopupInit
    /\ ThreadInit
    /\ failures = 0
    /\ calls = 0
    /\ op = [name |-> "PopupManager", answer |-> None]

TimePasses ==
    \E t \in ReminderTimes :
        /\ t > now
        /\ now' = t
        /\ op' = [name |-> "clock", answer |-> None]
        /\ UNCHANGED <<threadVars, trackerVars, data_file, settingsVars, popupVars, failures, calls>>

SampleOne ==
    \E w \in {NoWindow, <<"chrome.exe", "inbox">>} :
        /\ (w # NoWindow /\ current_activity # w[1]) => Len(daily_logs) < MaxLog
        /\ TimeDelta(now, last_check_time) > 0
        /\ track_activity(w, "ok")
        /\ UNCHANGED <<threadVars, settingsVars, popupVars, failures, calls>>

CheckReminders ==
    /\ check_and_show_reminders
    /\ UNCHANGED <<threadVars, now, trackerVars, data_file, settingsVars, failures, calls>>

AnswerSnooze ==
    \E answer \in {"yes", "no", "raise"} :
        /\ answer_snooze(answer)
        /\ UNCHANGED <<threadVars, now, trackerVars, data_file, settingsVars, failures, calls>>

NextReminder == TimePasses \/ SampleOne \/ CheckReminders \/ AnswerSnooze

SpecReminder == InitReminder /\ [][NextReminder]_vars

\* How many break reminders a sequence of reminders holds.
Breaks(seq) == Cardinality({i \in 1 .. Len(seq) : seq[i] = BreakReminder})

\* C4: with reminders_enabled on, a call of check_and_show_reminders at time now
\* shows a break reminder exactly when break_reminder_enabled is on and
\* active_time / 60 >= break_interval and now >= next_break_time (equality
\* included in both), and no call shows more than one.
C4_BreakRule ==
    [][/\ (/\ op'.name = "check_and_show_reminders"
           /\ get_setting(settings, "reminders_enabled") = TRUE) =>
             (Breaks(emitted') = 1 <=>
                /\ get_setting(settings, "break_reminder_enabled") = TRUE
                /\ active_time >= 60 * get_setting(settings, "break_interval")
                /\ now >= next_break_time)
       /\ (op'.name \in {"check_and_show_reminders", "answer_snooze"}) =>
             Breaks(emitted') <= 1]_vars

\* C4 witness: a break reminder shown with both comparisons at equality: the
\* active time is exactly break_interval minutes and the clock is exactly at a
\* next_break_time that an earlier answer had set.
C4_Witness ==
    /\ op.name = "check_and_show_reminders"
    /\ pc = "ask"
    /\ emitted = <<BreakReminder>>
    /\ active_time = 60 * get_setting(settings, "break_interval")
    /\ now = next_break_time

\* C5: answering the break reminder at time t sets next_break_time to t + 300
\* when it is snoozed and to t + break_interval * 60 when the snooze is declined;
\* nothing else changes next_break_time, and no call shows a break reminder at a
\* time before next_break_time, whatever active_time is.
C5_SnoozeAndDecline ==
    [][/\ (op'.name = "answer_snooze" /\ op'.answer = "yes") =>
             next_break_time' = now + 300
       /\ (op'.name = "answer_snooze" /\ op'.answer = "no") =>
             next_break_time' = now + get_setting(settings, "break_interval") * 60
       /\ (op'.name # "answer_snooze") => next_break_time' = next_break_time
       /\ (op'.name = "check_and_show_reminders" /\ Breaks(emitted') > 0) =>
             now >= next_break_time]_vars

\* C5 witness: a call made before the next_break_time set by a snooze (300 s
\* after one of the times of the model) shows no break reminder although the
\* break rule is on and the active time is over the interval.
C5_Witness ==
    /\ op.name = "check_and_show_reminders"
    /\ get_setting(settings, "reminders_enabled") = TRUE
    /\ get_setting(settings, "break_reminder_enabled") = TRUE
    /\ active_time >= 60 * get_setting(settings, "break_interval")
    /\ (next_break_time - 300) \in ReminderTimes
    /\ now < next_break_time
    /\ Breaks(emitted) = 0

\* C8: saving any reachable state in full and loading the file into a newly
\* constructed tracker gives back the same activities, idle_time, active_time,
\* session_start and the same event log in the same order.
C8_RoundTrip ==
    LET file   == save_data(data_file, activities, idle_time, active_time,
                            session_start, daily_logs, "ok")
        loaded == NewTracker(now, file)
    IN  /\ loaded.activities = activities
        /\ loaded.idle_time = idle_time
        /\ loaded.active_time = active_time
        /\ loaded.session_start = session_start
        /\ loaded.daily_logs = daily_logs

-----------------------------------------------------------------------------
(* Claims on the accounting engine, under Spec *)

\* C1: after every call, active_time is the sum of the values of activities.
C1_ActiveIsSumOfActivities == active_time = SumValues(activities)

\* C1 witness: a sample has left two applications with time on each.
C1_Witness ==
    /\ op.name = "track_activity"
    /\ Cardinality({a \in Keys(activities) : Lookup(activities, a) > 0}) = 2
    /\ active_time = 2

\* C2: a sample of a determinable window (app, title) appends exactly the event
\* {app, title, "switched_to"} when app differs from current_activity, appends
\* nothing when it is the same, and leaves current_activity = app.
C2_SwitchEvent ==
    [][(op'.name = "track_activity" /\ op'.window_info # NoWindow) =>
        LET app   == op'.window_info[1]
            title == op'.window_info[2]
            n     == Len(daily_logs)
        IN  /\ current_activity' = app
            /\ IF app # current_activity
               THEN /\ Len(daily_logs') = n + 1
                    /\ SubSeq(daily_logs', 1, n) = daily_logs
                    /\ daily_logs'[n + 1].app_name = app
                    /\ daily_logs'[n + 1].window_title = title
                    /\ daily_logs'[n + 1].action = "switched_to"
               ELSE daily_logs' = daily_logs]_vars

\* C2 witness: after two switches, a later sample of the same application has
\* appended nothing (the last event is older than the sample).
C2_Witness ==
    /\ op.name = "track_activity"
    /\ op.window_info # NoWindow
    /\ Len(daily_logs) = 2
    /\ daily_logs[1].app_name # daily_logs[2].app_name
    /\ daily_logs[2].app_name = op.window_info[1]
    /\ daily_logs[2].timestamp < last_check_time

\* C6: a sample taken when the clock is behind last_check_time adds nothing to
\* active_time, idle_time or any duration, and sets last_check_time to the clock.
C6_BackwardClockClamped ==
    [][(op'.name = "track_activity" /\ now < last_check_time) =>
        /\ active_time' = active_time
        /\ idle_time' = idle_time
        /\ \A a \in Keys(activities) :
              a \in Keys(activities') /\ Lookup(activities', a) = Lookup(activities, a)
        /\ \A a \in Keys(activities') : Lookup(activities', a) = Lookup(activities, a)
        /\ last_check_time' = now
        /\ last_check_time' < last_check_time]_vars

\* C6 witness: a sample of a window with the clock behind, after time was counted.
C6_Witness ==
    /\ op.name = "track_activity"
    /\ op.delta < 0
    /\ op.window_info # NoWindow
    /\ active_time > 0
    /\ last_check_time = now

\* The file of a cleared tracker whose session started at t.
ClearedFile(t) ==
    [kind |-> "json",
     data |-> [activities |-> EmptyDict, idle_time |-> 0, active_time |-> 0,
               session_start |-> t, daily_logs |-> <<>>]]

-----------------------------------------------------------------------------
(* get_top_apps on its own: a tracker holding any few applications with any   *)
(* small durations, first seen in any order, asked for its top n.             *)

\* The longest duration of an application, in seconds.
MaxDuration == 2

\* The largest n get_top_apps is called with.
MaxN == 4

TopApps == {"chrome.exe", "code.exe", "explorer.exe"}

\* The dicts with the keys in S, in every insertion order, with every duration.
RECURSIVE DictsOver(_)
DictsOver(S) ==
    IF S = {} THEN {EmptyDict}
    ELSE UNION {{Append(d, <<a, v>>) : d \in DictsOver(S \ {a}), v \in 1 .. MaxDuration} :
                    a \in S}

\* ActivityTracker() constructed on a file holding any of those dicts.
InitTop ==
    /\ now = MinTime
    /\ \E S \in SUBSET TopApps :
        \E d \in DictsOver(S) :
            /\ data_file = JsonFile(SaveDict(d, 0, SumValues(d), MinTime, <<>>))
            /\ LET self == NewTracker(MinTime, data_file)
               IN  /\ activities = self.activities
                   /\ current_activity = self.current_activity
                   /\ last_check_time = self.last_check_time
                   /\ idle_time = self.idle_time
                   /\ active_time = self.active_time
                   /\ session_start = self.session_start
                   /\ daily_logs = self.daily_logs
                   /\ is_tracking = self.is_tracking
    /\ SettingsInit(NoSettingsFile)
    /\ PopupInit
    /\ ThreadInit
    /\ failures = 0
    /\ calls = 0
    /\ op = [name |-> "__init__", n |-> 0, result |-> <<>>]

GetTopApps ==
    \E n \in 0 .. MaxN :
        /\ op' = [name |-> "get_top_apps", n |-> n, result |-> get_top_apps(activities, n)]
        /\ UNCHANGED <<threadVars, now, trackerVars, data_file, settingsVars, popupVars,
                       failures, calls>>

NextTop == GetTopApps

SpecTop == InitTop /\ [][NextTop]_vars

\* The position of application a in the dict d (its first-seen order).
RECURSIVE PositionIn(_, _)
PositionIn(d, a) == IF d[1][1] = a THEN 1 ELSE 1 + PositionIn(Tail(d), a)

\* Item x comes before item y: longer, or as long and seen first.
Precedes(d, x, y) ==
    \/ x[2] > y[2]
    \/ x[2] = y[2] /\ PositionIn(d, x[1]) < PositionIn(d, y[1])

\* C11: get_top_apps(n) returns min(n, number of applications) items of
\* activities, in descending order of duration with equal durations in
\* first-seen order, and every application left out comes after all returned.
C11_TopApps ==
    (op.name = "get_top_apps") =>
        LET r == op.result
            m == IF op.n < Len(activities) THEN op.n ELSE Len(activities)
            returned == {r[i] : i \in 1 .. Len(r)}
            items == {activities[i] : i \in 1 .. Len(activities)}
        IN  /\ Len(r) = m
            /\ returned \subseteq items
            /\ \A i, j \in 1 .. Len(r) : i < j => Precedes(activities, r[i], r[j])
            /\ \A x \in items \ returned : \A y \in returned : Precedes(activities, y, x)

\* C11 witness: three applications, the first two seen with the same duration and
\* the third with a shorter one; top 2 is the first two in first-seen order.
C11_Witness ==
    /\ op.name = "get_top_apps"
    /\ op.n = 2
    /\ Len(activities) = 3
    /\ activities[1][2] = activities[2][2]
    /\ activities[3][2] < activities[1][2]
    /\ op.result = <<activities[1], activities[2]>>

-----------------------------------------------------------------------------
(* The application's threads: the main thread running the commands of the    *)
(* window (pause and resume, clear, the dashboard, exit) and the thread       *)
(* running tracking_loop, each call of track_activity taken as one step.      *)

\* This specification stops appending switch events at this length.
ControlLog == 1

\* This specification stops the clock once a sample would account more than
\* this many seconds.
ControlTotal == 2

\* What op records of a step that is no call of the tracker.
Command(name) ==
    [name |-> name, window_info |-> NoWindow, delta |-> 0, save |-> "none",
     again |-> FALSE]

\* start_tracking without the test of line 580: a thread is started at every call.
start_tracking_untested ==
    /\ is_tracking' = TRUE
    /\ tracking_thread' = "test"
    /\ alive' = alive + 1

\* MainApplication.start_tracking, lines 578-584: a thread is started only when
\* none is alive, and only then is is_tracking set.
start_tracking ==
    IF tracking_thread = "dead"
    THEN /\ is_tracking' = TRUE
         /\ tracking_thread' = "test"
         /\ alive' = alive + 1
    ELSE UNCHANGED <<is_tracking, tracking_thread, alive>>

\* MainApplication.toggle_tracking, lines 611-619.
toggle_tracking ==
    IF is_tracking
    THEN /\ is_tracking' = FALSE
         /\ UNCHANGED <<tracking_thread, alive>>
         /\ paused_at' = {now}
         /\ resumed_at' = {}
         /\ op' = Command("pause")
    ELSE /\ start_tracking
         /\ resumed_at' = IF is_tracking' THEN {now} ELSE {}
         /\ UNCHANGED paused_at
         /\ op' = Command("resume")

\* MainApplication.tracking_loop, line 588: the test of the while loop; the
\* thread ends when is_tracking is false.
loop_test ==
    /\ tracking_thread = "test"
    /\ tracking_thread' = IF is_tracking THEN "body" ELSE "dead"
    /\ alive' = IF is_tracking THEN alive ELSE alive - 1
    /\ op' = Command(IF is_tracking THEN "loop" ELSE "loop_end")

\* Line 590: the call of track_activity.
loop_body(window_info) ==
    /\ tracking_thread = "body"
    /\ track_activity(window_info, "ok")
    /\ tracking_thread' = "sleep"
    /\ resumed_at' = {}
    /\ UNCHANGED alive

\* Line 591: time.sleep returns.
loop_sleep ==
    /\ tracking_thread = "sleep"
    /\ tracking_thread' = "test"
    /\ UNCHANGED alive
    /\ op' = Command("sleep")

\* MainApplication.exit_app once the question is answered yes, line 632.
exit_app_stop ==
    /\ gui = "idle"
    /\ gui' = "exit_save"
    /\ is_tracking' = FALSE
    /\ op' = Command("exit_app")

\* Line 633: the last save_data.
exit_app_save ==
    /\ gui = "exit_save"
    /\ gui' = "exit_destroy"
    /\ data_file' = save_data(data_file, activities, idle_time, active_time,
                              session_start, daily_logs, "ok")
    /\ op' = Command("save_data")

\* Lines 634-638: the window is destroyed and sys.exit(0) ends the process, its
\* daemon threads included.
exit_app_exit ==
    /\ gui = "exit_destroy"
    /\ gui' = "exited"
    /\ op' = Command("sys.exit")

\* The process is running.
Running == gui # "exited"

InitControl ==
    /\ TrackerInit(MinTime)
    /\ SettingsInit(NoSettingsFile)
    /\ PopupInit
    /\ ThreadInit
    /\ failures = 0
    /\ calls = 0
    /\ op = Command("__init__")

Toggle ==
    /\ gui = "idle"
    /\ toggle_tracking
    /\ UNCHANGED <<now, activities, current_activity, last_check_time, idle_time,
                   active_time, session_start, daily_logs, data_file, gui, local,
                   settingsVars, popupVars, failures, calls>>

LoopTest ==
    /\ Running
    /\ loop_test
    /\ UNCHANGED <<now, trackerVars, data_file, gui, local, paused_at, resumed_at,
                   settingsVars, popupVars, failures, calls>>

LoopBody ==
    \E w \in Observations :
        /\ Running
        /\ (w # NoWindow /\ current_activity # w[1]) => Len(daily_logs) < ControlLog
        /\ loop_body(w)
        /\ UNCHANGED <<gui, local, paused_at, settingsVars, popupVars, failures, calls>>

LoopSleep ==
    /\ Running
    /\ loop_sleep
    /\ UNCHANGED <<now, trackerVars, data_file, gui, local, paused_at, resumed_at,
                   settingsVars, popupVars, failures, calls>>

ExitStop ==
    /\ exit_app_stop
    /\ UNCHANGED <<now, activities, current_activity, last_check_time, idle_time,
                   active_time, session_start, daily_logs, data_file,
                   tracking_thread, alive, local, paused_at, resumed_at,
                   settingsVars, popupVars, failures, calls>>

ExitSave ==
    /\ exit_app_save
    /\ UNCHANGED <<now, trackerVars, tracking_thread, alive, local, paused_at,
                   resumed_at, settingsVars, popupVars, failures, calls>>

ExitExit ==
    /\ exit_app_exit
    /\ UNCHANGED <<now, trackerVars, data_file, tracking_thread, alive, local,
                   paused_at, resumed_at, settingsVars, popupVars, failures, calls>>

\* MainApplication.clear_data answered yes, lines 621-627.
ClearCommand ==
    /\ gui = "idle"
    /\ clear_data("ok")
    /\ UNCHANGED <<threadVars, settingsVars, popupVars, failures, calls>>

\* MainApplication.update_dashboard, lines 490-492: it reads the statistics.
Dashboard ==
    /\ gui = "idle"
    /\ op' = Command("get_statistics")
    /\ UNCHANGED <<now, trackerVars, data_file, threadVars, settingsVars, popupVars,
                   failures, calls>>

\* The clock moves, forward or backward, while the time a sample would add
\* stays within ControlTotal.
ControlTick ==
    \E t \in Times :
        /\ Running
        /\ active_time + idle_time + TimeDelta(t, last_check_time) <= ControlTotal
        /\ ClockMoves(t)
        /\ UNCHANGED <<data_file, threadVars, settingsVars, popupVars, failures, calls>>

NextControl ==
    \/ Toggle \/ LoopTest \/ LoopBody \/ LoopSleep
    \/ ExitStop \/ ExitSave \/ ExitExit
    \/ ClearCommand \/ Dashboard \/ ControlTick

SpecControl == InitControl /\ [][NextControl]_vars

\* C12: the first sample after a resume at time r that followed a pause at an
\* earlier time p adds to active_time and idle_time at most the time since r.
C12_PausedIntervalNotCounted ==
    [][(op'.name = "track_activity") =>
        \A p \in paused_at, r \in resumed_at :
            (r > p) =>
                (active_time' + idle_time') - (active_time + idle_time) <= now - r]_vars

\* The scheduler lets the thread running tracking_loop take its next step, and
\* time.sleep returns; the user need not give any command.
SpecControlFair ==
    /\ SpecControl
    /\ WF_vars(LoopTest)
    /\ WF_vars(LoopBody)
    /\ WF_vars(LoopSleep)

\* C13: when the resume command returns is_tracking is true, and a resume is
\* followed by a call of track_activity unless the user pauses or exits first,
\* wherever the old loop thread was when the resume was given.
C13_ResumeRestarts ==
    /\ [](op.name = "resume" => is_tracking)
    /\ (op.name = "resume") ~> (op.name \in {"track_activity", "pause", "exit_app"})

\* C14: a save_data that fails, at open() or part-way through the write, leaves
\* the file holding the complete snapshot it held before.
C14_FailedSaveKeepsSnapshot ==
    [][(/\ op'.name \in {"track_activity", "clear_data"}
        /\ op'.save \in {"open_failed", "write_failed"}
        /\ data_file.kind = "json") =>
            data_file' = data_file]_vars

\* C15: when the process has exited, the data file holds the accounting state
\* the tracker had at exit (activities, idle_time, active_time, session_start and
\* the event log): nothing changed it after the last save_data.
C15_ExitFlushesFinalState ==
    (gui = "exited") =>
        data_file = JsonFile(SaveDict(activities, idle_time, active_time,
                                      session_start, daily_logs))

-----------------------------------------------------------------------------
(* The calls of the tracker step by step: track_activity in the thread running *)
(* tracking_loop, clear_data in the main thread and get_statistics in the      *)
(* thread of schedule_popups; a step holds one read or one write of a field    *)
(* of the tracker, and the steps of the threads interleave in any order.       *)

\* d[key] = value: a missing key is created, after the others.
SetItem(d, key, value) ==
    IF key \in Keys(d)
    THEN [i \in 1 .. Len(d) |-> IF d[i][1] = key THEN <<key, value>> ELSE d[i]]
    ELSE Append(d, <<key, value>>)

\* save_data, lines 136-149, is one step here: the file is not what the
\* properties of this specification are about.
SaveStep(file) ==
    save_data(file, activities, idle_time, active_time, session_start, daily_logs, "ok")

\* One step of track_activity, lines 88-118, in the thread running
\* tracking_loop; window_info is what get_active_window returns when it is called.
track_activity_step(window_info) ==
    LET l     == local.sampler
        at    == l.pc
        app   == l.window_info[1]
        title == l.window_info[2]
        next  ==
            CASE at = "idle" ->
                    [IdleThread EXCEPT
                        !.pc = IF window_info # NoWindow THEN "act_read" ELSE "idle_read",
                        !.current_time = now,
                        !.time_delta = TimeDelta(now, last_check_time),
                        !.window_info = window_info]
              [] at = "act_read"     -> [l EXCEPT !.pc = "act_write",
                                                  !.tmp = Lookup(activities, app)]
              [] at = "act_write"    -> [l EXCEPT !.pc = "active_read"]
              [] at = "active_read"  -> [l EXCEPT !.pc = "active_write", !.tmp = active_time]
              [] at = "active_write" -> [l EXCEPT !.pc = "switch"]
              [] at = "switch"       -> [l EXCEPT !.pc = "last_check"]
              [] at = "idle_read"    -> [l EXCEPT !.pc = "idle_write", !.tmp = idle_time]
              [] at = "idle_write"   -> [l EXCEPT !.pc = "last_check"]
              [] at = "last_check"   ->
                    IF SaveDue(l.current_time)
                    THEN [l EXCEPT !.pc = "save_data"] ELSE IdleThread
              [] OTHER               -> IdleThread
        switched == at = "switch" /\ Switched(current_activity, app)
    IN  /\ tracking_thread = "body"
        /\ local' = [local EXCEPT !.sampler = next]
        /\ activities' =
              CASE at = "act_read"  -> AddTo(activities, app, 0)
                [] at = "act_write" -> SetItem(activities, app, l.tmp + l.time_delta)
                [] OTHER            -> activities
        /\ active_time' = IF at = "active_write" THEN l.tmp + l.time_delta ELSE active_time
        /\ idle_time' = IF at = "idle_write" THEN l.tmp + l.time_delta ELSE idle_time
        /\ daily_logs' = IF switched
                         THEN Append(daily_logs, SwitchEvent(l.current_time, app, title))
                         ELSE daily_logs
        /\ current_activity' = IF switched THEN app ELSE current_activity
        /\ last_check_time' = IF at = "last_check" THEN l.current_time ELSE last_check_time
        /\ data_file' = IF at = "save_data" THEN SaveStep(data_file) ELSE data_file
        /\ tracking_thread' = IF next.pc = "idle" THEN "sleep" ELSE "body"
        /\ op' = Command(IF next.pc = "idle" THEN "track_activity" ELSE "step")
        /\ UNCHANGED <<now, session_start, is_tracking>>

\* One step of clear_data, lines 166-173, in the main thread.
clear_data_step ==
    LET next == CASE gui = "idle"         -> "clear_idle"
                  [] gui = "clear_idle"   -> "clear_active"
                  [] gui = "clear_active" -> "clear_start"
                  [] gui = "clear_start"  -> "clear_logs"
                  [] gui = "clear_logs"   -> "save_data"
                  [] OTHER                -> "idle"
    IN  /\ gui \in {"idle", "clear_idle", "clear_active", "clear_start", "clear_logs",
                    "save_data"}
        /\ gui' = next
        /\ activities' = IF gui = "idle" THEN EmptyDict ELSE activities
        /\ idle_time' = IF gui = "clear_idle" THEN 0 ELSE idle_time
        /\ active_time' = IF gui = "clear_active" THEN 0 ELSE active_time
        /\ session_start' = IF gui = "clear_start" THEN now ELSE session_start
        /\ daily_logs' = IF gui = "clear_logs" THEN <<>> ELSE daily_logs
        /\ data_file' = IF gui = "save_data" THEN SaveStep(data_file) ELSE data_file
        /\ op' = Command(IF next = "idle" THEN "clear_data" ELSE "step")
        /\ UNCHANGED <<now, current_activity, last_check_time, is_tracking, local>>

\* One step of get_statistics, lines 120-129, called by check_and_show_reminders
\* (line 263) in the thread of schedule_popups; stats is what it returns.
get_statistics_step ==
    LET l    == local.reader
        at   == l.pc
        next ==
            CASE at = "idle" ->
                    [IdleReader EXCEPT
                        !.pc = "active_time",
                        !.total_time = IF now - session_start < 1 THEN 1
                                       ELSE now - session_start]
              [] at = "active_time" -> [l EXCEPT !.pc = "idle_time", !.active_time = active_time]
              [] at = "idle_time"   -> [l EXCEPT !.pc = "activities", !.idle_time = idle_time]
              [] at = "activities"  -> [l EXCEPT !.pc = "top_apps", !.activities = activities]
              [] OTHER              -> IdleReader
    IN  /\ local' = [local EXCEPT !.reader = next]
        /\ stats' = IF at = "top_apps"
                    THEN [total_time  |-> l.total_time,
                          active_time |-> l.active_time,
                          idle_time   |-> l.idle_time,
                          activities  |-> l.activities,
                          top_apps    |-> get_top_apps(activities, 5)]
                    ELSE stats
        /\ op' = Command(IF at = "top_apps" THEN "get_statistics" ELSE "step")

RaceCalls == 2

InitRace ==
    /\ TrackerInit(MinTime)
    /\ SettingsInit(NoSettingsFile)
    /\ PopupInit
    /\ ThreadInit
    /\ failures = 0
    /\ calls = 0
    /\ op = Command("__init__")

SamplerStep ==
    \E w \in Observations :
        /\ (local.sampler.pc = "idle" /\ w # NoWindow /\ current_activity # w[1]) =>
              Len(daily_logs) < ControlLog
        /\ local.sampler.pc # "idle" => w = NoWindow
        /\ track_activity_step(w)
        /\ UNCHANGED <<alive, gui, paused_at, resumed_at, settingsVars, popupVars,
                       failures, calls>>

\* calls counts the calls of clear_data and of get_statistics that have begun.
Begins(at) ==
    /\ at = "idle" => calls < RaceCalls
    /\ calls' = IF at = "idle" THEN calls + 1 ELSE calls

ClearStep ==
    /\ Begins(gui)
    /\ clear_data_step
    /\ UNCHANGED <<tracking_thread, alive, paused_at, resumed_at, settingsVars,
                   popupVars, failures>>

ReaderStep ==
    /\ Begins(local.reader.pc)
    /\ get_statistics_step
    /\ UNCHANGED <<now, trackerVars, data_file, tracking_thread, alive, gui,
                   paused_at, resumed_at, settings, settings_file, next_break_time, pc,
                   break_interval, emitted, failures>>

\* The clock moves forward.
RaceTick ==
    \E t \in Times :
        /\ t > now
        /\ ClockMoves(t)
        /\ UNCHANGED <<data_file, threadVars, settingsVars, popupVars, failures, calls>>

NextRace == LoopTest \/ SamplerStep \/ LoopSleep \/ ClearStep \/ ReaderStep \/ RaceTick

SpecRace == InitRace /\ [][NextRace]_vars

\* C16: no step of get_statistics changes a field of the tracker, and in every
\* snapshot it returns, also one taken while a sample is running, active_time is
\* the sum of the values of the activities it holds.
C16_ConsistentSnapshot ==
    [][/\ (local'.reader # local.reader) => UNCHANGED trackerVars
       /\ (op'.name = "get_statistics") =>
             stats'.active_time = SumValues(stats'.activities)]_vars

\* C17: when a call of clear_data in the main thread and a call of
\* track_activity in the sampling thread have both completed, however their
\* reads and writes interleaved, active_time is the sum of the values of
\* activities.
C17_SumAfterConcurrentClear ==
    (local.sampler.pc = "idle" /\ gui = "idle") =>
        active_time = SumValues(activities)

\* C18: a sample whose window cannot be determined adds the clamped delta to
\* idle_time and to nothing else: activities, active_time, current_activity
\* and the log are left as they were.
C18_IdleSampleOnlyAddsIdle ==
    [][(op'.name = "track_activity" /\ op'.window_info = NoWindow) =>
        /\ idle_time' = idle_time + (IF op'.delta < 0 THEN 0 ELSE op'.delta)
        /\ activities' = activities
        /\ active_time' = active_time
        /\ current_activity' = current_activity
        /\ daily_logs' = daily_logs]_vars

\* C18 witness: after time was counted for an application, a sample with no
\* window has added a positive delta to idle_time.
C18_Witness ==
    /\ op.name = "track_activity"
    /\ op.window_info = NoWindow
    /\ op.delta > 0
    /\ idle_time = op.delta
    /\ active_time > 0
    /\ current_activity # None
    /\ daily_logs # <<>>

\* C19: in every step that is not a reset (a sample, a read of the statistics,
\* a save, a pause, a resume, the loop's test and sleep, the clock), active_time,
\* idle_time and the duration of every application do not decrease and are not
\* negative, and every key of activities stays.
C19_CountersNeverDecrease ==
    [][(op'.name # "clear_data") =>
        /\ active_time' >= active_time
        /\ idle_time' >= idle_time
        /\ active_time' >= 0
        /\ idle_time' >= 0
        /\ \A a \in Keys(activities) :
              /\ a \in Keys(activities')
              /\ Lookup(activities', a) >= Lookup(activities, a)
        /\ \A a \in Keys(activities') : Lookup(activities', a) >= 0]_vars

\* C19 witness: after a pause, with time counted for an application and as
\* idle, a sample was taken with the clock behind last_check_time.
C19_Witness ==
    /\ op.name = "track_activity"
    /\ op.delta < 0
    /\ paused_at # {}
    /\ active_time > 0
    /\ idle_time > 0
    /\ activities # EmptyDict

-----------------------------------------------------------------------------
(* The usage rule: thresholds of 0 and 1 hours, a clock that moves forward by  *)
(* an hour or a second more, samples of three applications or of none, and     *)
(* calls of check_and_show_reminders, counted in calls.                        *)

MaxChecks == 2

\* The tracker is constructed at the first of these times.
UsageTimes == {1000, 4600, 8201, 11802}

UsageFiles ==
    {[kind |-> "json",
      data |-> [reminders_enabled       |-> on,
                break_reminder_enabled  |-> break,
                break_interval          |-> 60,
                app_usage_warnings      |-> usage,
                entertainment_threshold |-> hours,
                idle_warning_enabled    |-> idle,
                idle_threshold          |-> 60]] :
        on \in BOOLEAN, break \in BOOLEAN, usage \in BOOLEAN, hours \in {0, 1},
        idle \in BOOLEAN}

UsageWindows ==
    {<<"chrome.exe", "inbox">>, <<"code.exe", "main.py">>, <<"Discord.exe", "chat">>}

InitUsage ==
    /\ TrackerInit(1000)
    /\ \E file \in UsageFiles : SettingsInit(file)
    /\ PopupInit
    /\ ThreadInit
    /\ failures = 0
    /\ calls = 0
    /\ op = [name |-> "PopupManager", answer |-> None]

UsageTimePasses ==
    \E t \in UsageTimes :
        /\ t > now
        /\ now' = t
        /\ op' = [name |-> "clock", answer |-> None]
        /\ UNCHANGED <<threadVars, trackerVars, data_file, settingsVars, popupVars,
                       failures, calls>>

UsageSample ==
    \E w \in {NoWindow} \cup UsageWindows :
        /\ (w # NoWindow /\ current_activity # w[1]) => Len(daily_logs) < MaxLog
        /\ TimeDelta(now, last_check_time) > 0
        /\ track_activity(w, "ok")
        /\ UNCHANGED <<threadVars, settingsVars, popupVars, failures, calls>>

UsageCheck ==
    /\ calls < MaxChecks
    /\ calls' = calls + 1
    /\ check_and_show_reminders
    /\ UNCHANGED <<threadVars, now, trackerVars, data_file, settingsVars, failures>>

UsageAnswer ==
    \E answer \in {"yes", "no", "raise"} :
        /\ answer_snooze(answer)
        /\ UNCHANGED <<threadVars, now, trackerVars, data_file, settingsVars, failures,
                       calls>>

NextUsage == UsageTimePasses \/ UsageSample \/ UsageCheck \/ UsageAnswer

SpecUsage == InitUsage /\ [][NextUsage]_vars

\* How many usage alerts for app a sequence of reminders holds.
UsageCount(seq, app) == Cardinality({i \in 1 .. Len(seq) : seq[i] = UsageAlert(app)})

\* The applications of the model whose lower-case name contains a keyword:
\* 'chrome' in chrome.exe and 'discord' in discord.exe.
Keyworded == {"chrome.exe", "Discord.exe"}

\* C20: with reminders_enabled and app_usage_warnings on, a call of
\* check_and_show_reminders, when it returns, has shown exactly one usage alert
\* for each application whose lower-case name contains a keyword and whose
\* duration in the statistics it read is more than entertainment_threshold
\* hours (strictly), and none for any other application; a call that follows
\* another with nothing in between shows the same usage alerts again.
C20_UsageRule ==
    [][LET returns == \/ op'.name = "check_and_show_reminders" /\ pc' = "idle"
                      \/ op'.name = "answer_snooze"
           named == {emitted'[i][2] : i \in 1 .. Len(emitted')} \ {None}
           hours == get_setting(settings, "entertainment_threshold")
       IN  /\ (/\ returns
               /\ get_setting(settings, "reminders_enabled") = TRUE
               /\ get_setting(settings, "app_usage_warnings") = TRUE) =>
                 \A a \in Keys(stats'.activities) \cup named :
                    UsageCount(emitted', a) =
                       IF /\ a \in Keyworded
                          /\ a \in Keys(stats'.activities)
                          /\ Lookup(stats'.activities, a) > hours * 3600
                       THEN 1 ELSE 0
           /\ (/\ op.name = "check_and_show_reminders" /\ pc = "idle"
               /\ op'.name = "check_and_show_reminders" /\ pc' = "idle") =>
                 \A a \in AppNames : UsageCount(emitted', a) = UsageCount(emitted, a)]_vars

\* C20 witness: the second call in a row, with a threshold of one hour, shows an
\* alert for Discord.exe (3601 s) and for no other application, where
\* chrome.exe has exactly 3600 s and code.exe, over the threshold, has no keyword.
C20_Witness ==
    /\ op.name = "check_and_show_reminders"
    /\ pc = "idle"
    /\ calls = 2
    /\ get_setting(settings, "entertainment_threshold") = 1
    /\ Keys(stats.activities) = {"chrome.exe", "Discord.exe", "code.exe"}
    /\ Lookup(stats.activities, "chrome.exe") = 3600
    /\ Lookup(stats.activities, "code.exe") > 3600
    /\ UsageCount(emitted, "Discord.exe") = 1
    /\ UsageCount(emitted, "chrome.exe") = 0
    /\ UsageCount(emitted, "code.exe") = 0

\* How many idle alerts a sequence of reminders holds.
IdleCount(seq) == Cardinality({i \in 1 .. Len(seq) : seq[i] = IdleAlert})

\* C21: with reminders_enabled on, a call of check_and_show_reminders, when it
\* returns, has shown exactly one idle alert if idle_warning_enabled is on and
\* the idle_time it read is more than idle_threshold minutes (strictly), and
\* none otherwise; a call that follows another with nothing in between shows
\* the idle alert again.
C21_IdleRule ==
    [][LET returns == \/ op'.name = "check_and_show_reminders" /\ pc' = "idle"
                      \/ op'.name = "answer_snooze"
       IN  /\ (returns /\ get_setting(settings, "reminders_enabled") = TRUE) =>
                 IdleCount(emitted') =
                    IF /\ get_setting(settings, "idle_warning_enabled") = TRUE
                       /\ stats'.idle_time > 60 * get_setting(settings, "idle_threshold")
                    THEN 1 ELSE 0
           /\ (/\ op.name = "check_and_show_reminders" /\ pc = "idle"
               /\ op'.name = "check_and_show_reminders" /\ pc' = "idle") =>
                 IdleCount(emitted') = IdleCount(emitted)]_vars

\* C21 witness: the second call in a row shows the idle alert, with an idle
\* time one second over the threshold of 60 minutes.
C21_Witness ==
    /\ op.name = "check_and_show_reminders"
    /\ pc = "idle"
    /\ calls = 2
    /\ get_setting(settings, "idle_threshold") = 60
    /\ stats.idle_time = 3601
    /\ idle_time = 3601
    /\ IdleCount(emitted) = 1

\* C22: when the dialogs of a break reminder raise, next_break_time keeps its
\* value, the usage and idle rules of that call are still applied to the
\* statistics it read, and the next call of check_and_show_reminders shows no
\* break reminder.
C22_ConfirmationFailure ==
    [][/\ (op'.name = "answer_snooze" /\ op'.answer = "raise") =>
             /\ next_break_time' = next_break_time
             /\ emitted' = emitted \o UsageAndIdle(stats)
       /\ (/\ op.name = "answer_snooze" /\ op.answer = "raise"
           /\ op'.name = "check_and_show_reminders") =>
             Breaks(emitted') = 0]_vars

\* C23: whatever start, pause and resume commands are given and whenever, at
\* most one thread running tracking_loop is alive, and every sample adds the
\* time since the sample before it (clamped at 0) once.
C23_OneSamplingThread ==
    /\ [](alive \in {0, 1} /\ (alive = 0 <=> tracking_thread = "dead"))
    /\ [][(op'.name = "track_activity") =>
            /\ (active_time' + idle_time') - (active_time + idle_time) =
                  (IF now < last_check_time THEN 0 ELSE now - last_check_time)
            /\ last_check_time' = now]_vars

\* C23 witness: a resume command given while the thread started before the
\* pause is still sleeping has started no second thread.
C23_Witness ==
    /\ op.name = "resume"
    /\ paused_at # {}
    /\ tracking_thread = "sleep"
    /\ alive = 1

\* C24: clear_data leaves current_activity and last_check_time as they were;
\* so the first sample after it, when its window is of the application that
\* was current before, appends no switch event (the log stays empty while the
\* application has a duration) and is credited the whole time since
\* last_check_time, the time of the last sample before the reset.
C24_ClearKeepsCurrentActivity ==
    [][/\ (op'.name = "clear_data") =>
             /\ current_activity' = current_activity
             /\ last_check_time' = last_check_time
       /\ (/\ WasCleared
           /\ op'.name = "track_activity"
           /\ op'.window_info # NoWindow
           /\ op'.window_info[1] = current_activity) =>
             LET credited == IF now < last_check_time THEN 0 ELSE now - last_check_time
             IN  /\ daily_logs' = <<>>
                 /\ activities' = <<<<current_activity, credited>>>>
                 /\ active_time' = credited]_vars

\* C24 witness: the first sample after a reset is of the application that was
\* current before it: the log is empty, and the application is credited more
\* time than has passed since the reset.
C24_Witness ==
    /\ op.name = "track_activity"
    /\ op.window_info # NoWindow
    /\ daily_logs = <<>>
    /\ activities = <<<<current_activity, op.delta>>>>
    /\ op.delta > now - session_start
    /\ session_start > MinTime

\* C25: with reminders_enabled false, a call of check_and_show_reminders shows
\* no reminder (no break reminder, no usage alert, no idle alert), asks
\* nothing and leaves next_break_time as it was, whatever the counters and the
\* other options are.
C25_RemindersDisabled ==
    [][(/\ op'.name = "check_and_show_reminders"
        /\ get_setting(settings, "reminders_enabled") = FALSE) =>
          /\ emitted' = <<>>
          /\ pc' = "idle"
          /\ next_break_time' = next_break_time]_vars

\* C25 witness: a call with reminders_enabled false shows nothing although the
\* three rules are on and each of them has its condition met.
C25_Witness ==
    /\ op.name = "check_and_show_reminders"
    /\ get_setting(settings, "reminders_enabled") = FALSE
    /\ get_setting(settings, "break_reminder_enabled") = TRUE
    /\ get_setting(settings, "app_usage_warnings") = TRUE
    /\ get_setting(settings, "idle_warning_enabled") = TRUE
    /\ active_time >= 60 * get_setting(settings, "break_interval")
    /\ now >= next_break_time
    /\ "chrome.exe" \in Keys(activities)
    /\ Lookup(activities, "chrome.exe") > 3600 * get_setting(settings, "entertainment_threshold")
    /\ idle_time > 60 * get_setting(settings, "idle_threshold")
    /\ emitted = <<>>

====
